---- MODULE Spec2Model ----
(***************************************************************************)
(* Model of the command-line habit tracker (src/habit_tracker.py): the     *)
(* HabitTracker store, its JSON file and the streak computation; and of    *)
(* the web dashboard (src/PHT.py): its session state, the daily motivation *)
(* request and the handlers of its widgets.                                *)
(*                                                                         *)
(* A date string "YYYY-MM-DD" is modelled as the tuple <<Y, M, D>> of its  *)
(* zero-padded fields; Python's string comparison of such strings is the   *)
(* lexicographic comparison of the tuples.  A datetime.date is modelled as *)
(* its proleptic Gregorian ordinal, as date.toordinal() computes it.       *)
(***************************************************************************)
EXTENDS Integers, Sequences, FiniteSets, TLC

VARIABLES
    habits,   \* self.habits["habits"]: habit name -> habit record
    file,     \* the content of self.data_file
    today,    \* the calendar day datetime.now() falls on (an ordinal)
    ret,      \* the call that has just returned, with the date it named
              \* and its return value
    deleted,  \* history: the name whose completions delete_habit has just
              \* discarded (NoName once a call other than add_habit follows)
    loaded,   \* what self.habits is: "record", a dict that holds "habits",
              \* or "other", any other JSON value read from the file
    session,  \* st.session_state of the web dashboard
    run,      \* the run of the dashboard script: its position and its names
    log       \* history of the web dashboard: requests, delays, removals

\* the variables of the habit tracker, and those of the web dashboard
trackerVars == <<habits, file, ret, deleted, loaded>>
webVars == <<session, run, log>>
vars == <<habits, file, today, ret, deleted, loaded, session, run, log>>

----------------------------------------------------------------------------
(* Bounds of the model *)

\* how many calendar days, from EpochDate on, a caller may name
NumDays == 4
\* how many times the calendar day advances
MaxTicks == 1

Names == {"run", "read"}
\* the (name, description) pairs add_habit is called with; "" is the default
AddArgs == {<<"run", "">>, <<"run", "5 km">>, <<"read", "20 pages">>}

\* the first day a caller may name: the window crosses a month and a year
EpochDate == <<2024, 12, 29>>

----------------------------------------------------------------------------
(* datetime: strptime(s, "%Y-%m-%d").date() and strftime("%Y-%m-%d") *)

IsLeap(y) == (y % 4 = 0) /\ ((y % 100 # 0) \/ (y % 400 = 0))

DaysInMonth(y, m) ==
    IF m = 2 THEN (IF IsLeap(y) THEN 29 ELSE 28)
    ELSE IF m \in {4, 6, 9, 11} THEN 30 ELSE 31

RECURSIVE DaysBeforeMonth(_, _)
DaysBeforeMonth(y, m) ==
    IF m = 1 THEN 0 ELSE DaysBeforeMonth(y, m - 1) + DaysInMonth(y, m - 1)

DaysBeforeYear(y) ==
    (y - 1) * 365 + ((y - 1) \div 4) - ((y - 1) \div 100) + ((y - 1) \div 400)

\* the date a date string denotes
Strptime(s) == DaysBeforeYear(s[1]) + DaysBeforeMonth(s[1], s[2]) + s[3]

\* the date string of the day after the one s names
NextDayStr(s) ==
    IF s[3] < DaysInMonth(s[1], s[2]) THEN <<s[1], s[2], s[3] + 1>>
    ELSE IF s[2] < 12 THEN <<s[1], s[2] + 1, 1>>
    ELSE <<s[1] + 1, 1, 1>>

RECURSIVE StrftimeFrom(_, _, _)
StrftimeFrom(s, o, d) ==
    IF o = d THEN s ELSE StrftimeFrom(NextDayStr(s), o + 1, d)

\* the date string of date d (d on or after EpochDate)
Strftime(d) == StrftimeFrom(EpochDate, Strptime(EpochDate), d)

\* Python's < on two date strings
StrLess(a, b) ==
    \/ a[1] < b[1]
    \/ a[1] = b[1] /\ a[2] < b[2]
    \/ a[1] = b[1] /\ a[2] = b[2] /\ a[3] < b[3]

EpochDay == Strptime(EpochDate)
\* the day the tracker is first run on: two earlier days can be named
FirstToday == Strptime(NextDayStr(NextDayStr(EpochDate)))
Days == EpochDay .. (EpochDay + NumDays - 1)
\* the date strings a caller may pass to complete_habit
DateStrings == {Strftime(d) : d \in Days}
\* date=None: complete_habit uses today's date
None == <<>>
\* the (name, date) pairs complete_habit is called with: "run" with every
\* date and with none, as the tests call it; "read" with none, as the menu does
CompleteArgs == ({"run"} \X (DateStrings \cup {None})) \cup {<<"read", None>>}

----------------------------------------------------------------------------
(* list.sort() / sorted() on a list of date strings *)

RECURSIVE Insert(_, _)
Insert(s, x) ==
    IF s = <<>> THEN <<x>>
    ELSE IF StrLess(x, Head(s)) THEN <<x>> \o s
    ELSE <<Head(s)>> \o Insert(Tail(s), x)

RECURSIVE Sorted(_)
Sorted(s) == IF s = <<>> THEN <<>> ELSE Insert(Sorted(Tail(s)), Head(s))

InList(x, s) == \E i \in 1..Len(s) : s[i] = x

----------------------------------------------------------------------------
(* The habit record and the JSON file *)

NewHabit(description, now) ==
    [description    |-> description,
     created_date   |-> Strftime(now),
     completions    |-> <<>>,
     current_streak |-> 0,
     longest_streak |-> 0]

\* json.dump: a JSON object is its set of members; a habit is written as the
\* members of its dict, in the order add_habit created them
JsonHabit(h) ==
    << <<"description", h.description>>,
       <<"created_date", h.created_date>>,
       <<"completions", h.completions>>,
       <<"current_streak", h.current_streak>>,
       <<"longest_streak", h.longest_streak>> >>

JsonDump(hs) == {<<n, JsonHabit(hs[n])>> : n \in DOMAIN hs}

\* json.load: the dict a JSON object denotes
JsonGet(obj, key) == obj[CHOOSE i \in 1..Len(obj) : obj[i][1] = key][2]

ParseHabit(obj) ==
    [description    |-> JsonGet(obj, "description"),
     created_date   |-> JsonGet(obj, "created_date"),
     completions    |-> JsonGet(obj, "completions"),
     current_streak |-> JsonGet(obj, "current_streak"),
     longest_streak |-> JsonGet(obj, "longest_streak")]

JsonLoad(members) ==
    [n \in {m[1] : m \in members} |->
        ParseHabit((CHOOSE m \in members : m[1] = n)[2])]

NoHabits == [n \in {} |-> 0]
\* a file is absent, or holds the record _save_habits writes ("json"), or text
\* json.load rejects ("unparsable"), or JSON text of any other value ("other")
NoFile == [kind |-> "absent", members |-> {}]
UnparsableFile == [kind |-> "unparsable", members |-> {}]
OtherJsonFile == [kind |-> "other", members |-> {}]

\* _load_habits: the habit mapping a tracker constructed on file f starts with
LoadHabits(f) == IF f.kind = "json" THEN JsonLoad(f.members) ELSE NoHabits

\* _load_habits: json.load returns whatever value the file holds (line 25);
\* an absent or unparsable file gives the record {"habits": {}}
LoadShape(f) == IF f.kind = "other" THEN "other" ELSE "record"

\* _save_habits: the file after writing the habit mapping hs
SaveHabits(hs) == [kind |-> "json", members |-> JsonDump(hs)]

----------------------------------------------------------------------------
(* _update_streaks *)

\* mutant of CurrentStreakLoop: the loop stops at any date that is not the
\* day looked for, also at one later than it
RECURSIVE CurrentStreakLoopBreakOnMiss(_, _, _, _)
CurrentStreakLoopBreakOnMiss(completions, i, check_date, current_streak) ==
    IF i = 0 THEN current_streak
    ELSE IF Strptime(completions[i]) = check_date
    THEN CurrentStreakLoopBreakOnMiss(completions, i - 1, check_date - 1,
                                      current_streak + 1)
    ELSE current_streak

\* the loop of lines 82-88, from index i (1-based) down to the first element
RECURSIVE CurrentStreakLoop(_, _, _, _)
CurrentStreakLoop(completions, i, check_date, current_streak) ==
    IF i = 0 THEN current_streak
    ELSE LET completion_date == Strptime(completions[i]) IN
         IF completion_date = check_date
         THEN CurrentStreakLoop(completions, i - 1, check_date - 1,
                                current_streak + 1)
         ELSE IF completion_date < check_date
         THEN current_streak
         ELSE CurrentStreakLoop(completions, i - 1, check_date, current_streak)

CurrentStreak(completions, now) ==
    CurrentStreakLoop(completions, Len(completions), now, 0)

Max(a, b) == IF a >= b THEN a ELSE b

\* mutant of LongestStreakLoop: any later date continues the run
RECURSIVE LongestStreakLoopAnyGap(_, _, _, _)
LongestStreakLoopAnyGap(completions, i, temp_streak, longest_streak) ==
    IF i > Len(completions) THEN longest_streak
    ELSE IF Strptime(completions[i]) - Strptime(completions[i - 1]) >= 1
    THEN LongestStreakLoopAnyGap(completions, i + 1, temp_streak + 1,
                                 Max(longest_streak, temp_streak + 1))
    ELSE LongestStreakLoopAnyGap(completions, i + 1, 1, longest_streak)

\* the loop of lines 97-105, from index i (1-based) up to the last element
RECURSIVE LongestStreakLoop(_, _, _, _)
LongestStreakLoop(completions, i, temp_streak, longest_streak) ==
    IF i > Len(completions) THEN longest_streak
    ELSE LET prev_date == Strptime(completions[i - 1])
             curr_date == Strptime(completions[i])
         IN  IF curr_date - prev_date = 1
             THEN LongestStreakLoop(completions, i + 1, temp_streak + 1,
                                    Max(longest_streak, temp_streak + 1))
             ELSE LongestStreakLoop(completions, i + 1, 1, longest_streak)

LongestStreak(completions, current_streak) ==
    IF Len(completions) = 0 THEN 0
    ELSE Max(LongestStreakLoop(completions, 2, 1, 1), current_streak)

\* mutant of UpdateStreaks: the assignment of longest_streak is missing
UpdateStreaksCurrentOnly(habit, now) ==
    [habit EXCEPT !.current_streak = CurrentStreak(Sorted(habit.completions), now)]

\* the habit record after _update_streaks has run on it
UpdateStreaks(habit, now) ==
    LET completions == Sorted(habit.completions) IN
    IF completions = <<>>
    THEN [habit EXCEPT !.current_streak = 0, !.longest_streak = 0]
    ELSE LET current_streak == CurrentStreak(completions, now) IN
         [habit EXCEPT !.current_streak = current_streak,
                       !.longest_streak = LongestStreak(completions, current_streak)]

----------------------------------------------------------------------------
(* list_habits and get_habit_details *)

ListEntry(name, habit, now) ==
    [name              |-> name,
     description       |-> habit.description,
     created_date      |-> habit.created_date,
     total_completions |-> Len(habit.completions),
     current_streak    |-> habit.current_streak,
     longest_streak    |-> habit.longest_streak,
     completed_today   |-> InList(Strftime(now), habit.completions)]

\* the entries of the list list_habits returns
ListHabits == {ListEntry(n, habits[n], today) : n \in DOMAIN habits}

NoDetails == [name |-> None]

\* the dict get_habit_details returns (NoDetails for Python's None)
GetHabitDetails(name) ==
    IF name \notin DOMAIN habits THEN NoDetails
    ELSE [name              |-> name,
          description       |-> habits[name].description,
          created_date      |-> habits[name].created_date,
          completions       |-> habits[name].completions,
          total_completions |-> Len(habits[name].completions),
          current_streak    |-> habits[name].current_streak,
          longest_streak    |-> habits[name].longest_streak,
          completed_today   |-> InList(Strftime(today), habits[name].completions)]

----------------------------------------------------------------------------
(* The operations *)

Returned(op, name, date, result) ==
    [op |-> op, name |-> name, date |-> date, result |-> result]
NoName == ""
NoCall == Returned("none", NoName, None, FALSE)

\* HabitTracker(data_file): a new tracker on the same file
NewTracker ==
    /\ habits' = LoadHabits(file)
    /\ loaded' = LoadShape(file)
    /\ ret' = NoCall
    /\ deleted' = NoName
    /\ UNCHANGED <<file, today>>

\* a call on a tracker whose self.habits holds no "habits" mapping: each
\* method starts by indexing self.habits["habits"] and raises there
Raises(op, name) ==
    /\ loaded # "record"
    /\ ret' = Returned("raised", name, None, FALSE)
    /\ deleted' = NoName
    /\ UNCHANGED <<habits, file, today, loaded>>

\* mutant of Store: one habit dict is stored under every name
StoreAliased(hs, name, habit) == [n \in DOMAIN hs \cup {name} |-> habit]

\* the mapping after self.habits["habits"][name] = habit
Store(hs, name, habit) ==
    [n \in DOMAIN hs \cup {name} |-> IF n = name THEN habit ELSE hs[n]]

\* mutant of Remove: the entry is deleted from a copy of the mapping
RemoveFromCopy(hs, name) == hs

\* the mapping after del self.habits["habits"][name]
Remove(hs, name) == [n \in DOMAIN hs \ {name} |-> hs[n]]

\* mutant of AddHabit: no check for an existing name
AddHabitOverwrite(name, description) ==
    /\ habits' = Store(habits, name, NewHabit(description, today))
    /\ file' = SaveHabits(habits')
    /\ ret' = Returned("add_habit", name, None, name \notin DOMAIN habits)
    /\ UNCHANGED <<today, deleted>>

AddHabit(name, description) ==
    IF name \in DOMAIN habits
    THEN /\ ret' = Returned("add_habit", name, None, FALSE)
         /\ UNCHANGED <<habits, file, today, deleted>>
    ELSE /\ habits' = Store(habits, name, NewHabit(description, today))
         /\ file' = SaveHabits(habits')
         /\ ret' = Returned("add_habit", name, None, TRUE)
         /\ UNCHANGED <<today, deleted>>

\* mutant of AppendCompletion: the list is not sorted after the append
AppendUnsorted(completions, date) == Append(completions, date)

\* lines 60-61: append the date, then sort the list
AppendCompletion(completions, date) == Sorted(Append(completions, date))

\* the date a call names: date=None stands for today's date (lines 55-56)
DateOf(date_arg, now) == IF date_arg = None THEN Strftime(now) ELSE date_arg

\* mutant of CompleteHabit: no check for a date already recorded
CompleteHabitAgain(name, date_arg) ==
    LET date == DateOf(date_arg, today) IN
    IF name \notin DOMAIN habits
    THEN /\ ret' = Returned("complete_habit", name, date, FALSE)
         /\ deleted' = NoName
         /\ UNCHANGED <<habits, file, today>>
    ELSE /\ habits' = Store(habits, name,
                UpdateStreaks(
                    [habits[name] EXCEPT !.completions =
                        AppendCompletion(habits[name].completions, date)],
                    today))
         /\ file' = SaveHabits(habits')
         /\ ret' = Returned("complete_habit", name, date, TRUE)
         /\ deleted' = NoName
         /\ UNCHANGED today

\* mutant of CompleteHabit: the file is written before the streaks are updated
CompleteHabitSaveFirst(name, date_arg) ==
    LET date == DateOf(date_arg, today) IN
    IF name \in DOMAIN habits /\ ~InList(date, habits[name].completions)
    THEN LET appended == [habits[name] EXCEPT !.completions =
                             AppendCompletion(habits[name].completions, date)]
         IN  /\ file' = SaveHabits(Store(habits, name, appended))
             /\ habits' = Store(habits, name, UpdateStreaks(appended, today))
             /\ ret' = Returned("complete_habit", name, date, TRUE)
             /\ deleted' = NoName
             /\ UNCHANGED today
    ELSE /\ ret' = Returned("complete_habit", name, date, FALSE)
         /\ deleted' = NoName
         /\ UNCHANGED <<habits, file, today>>

CompleteHabit(name, date_arg) ==
    LET date == DateOf(date_arg, today) IN
    IF name \notin DOMAIN habits
    THEN /\ ret' = Returned("complete_habit", name, date, FALSE)
         /\ deleted' = NoName
         /\ UNCHANGED <<habits, file, today>>
    ELSE LET habit == habits[name] IN
         IF ~InList(date, habit.completions)
         THEN /\ habits' = Store(habits, name,
                     UpdateStreaks(
                         [habit EXCEPT !.completions =
                             AppendCompletion(habit.completions, date)],
                         today))
              /\ file' = SaveHabits(habits')
              /\ ret' = Returned("complete_habit", name, date, TRUE)
              /\ deleted' = NoName
              /\ UNCHANGED today
         ELSE /\ ret' = Returned("complete_habit", name, date, FALSE)
              /\ deleted' = NoName
              /\ UNCHANGED <<habits, file, today>>

\* mutant of DeleteHabit: the file is written whether or not the name exists
DeleteHabitAlwaysSaves(name) ==
    /\ habits' = Remove(habits, name)
    /\ file' = SaveHabits(habits')
    /\ ret' = Returned("delete_habit", name, None, name \in DOMAIN habits)
    /\ deleted' = IF name \in DOMAIN habits /\ habits[name].completions # <<>>
                  THEN name ELSE NoName
    /\ UNCHANGED today

DeleteHabit(name) ==
    IF name \in DOMAIN habits
    THEN /\ habits' = Remove(habits, name)
         /\ file' = SaveHabits(habits')
         /\ ret' = Returned("delete_habit", name, None, TRUE)
         /\ deleted' = IF habits[name].completions # <<>>
                       THEN name ELSE NoName
         /\ UNCHANGED today
    ELSE /\ ret' = Returned("delete_habit", name, None, FALSE)
         /\ deleted' = NoName
         /\ UNCHANGED <<habits, file, today>>

\* midnight passes: datetime.now() moves to the next calendar day
Tick ==
    /\ today < FirstToday + MaxTicks
    /\ today' = today + 1
    /\ ret' = NoCall
    /\ deleted' = NoName
    /\ UNCHANGED <<habits, file>>

----------------------------------------------------------------------------
(* The web dashboard (src/PHT.py): session state and the script run *)

MAX_ATTEMPTS == 3

DefaultText == "Couldn't connect to the habit coach. Try again later."
FailedText == "Failed to get motivation after several retries."
\* the non-empty text a response carries
GeneratedText == "Small steps, every day."

\* a value of the new_total_days widget: an int, or a text
IntValue(n) == [kind |-> "int", n |-> n, text |-> ""]
TextValue(t) == [kind |-> "str", n |-> 0, text |-> t]

\* st.session_state after init_state: tracker_data is INITIAL_TRACKER_DATA
InitialSession(now) ==
    [startDate          |-> Strftime(now),
     totalDays          |-> 7,
     tasks              |-> <<"task-1", "task-2">>,
     dailyStatus        |-> <<>>,
     lastMotivationDate |-> None,
     dailyMotivation    |-> "",
     is_generating      |-> FALSE,
     new_total_days     |-> IntValue(7)]

\* no script is running; the names of the last run are kept
IdleRun == [pc |-> "idle", today |-> None, current_date |-> None,
            generated |-> FALSE, i |-> 0, result_text |-> ""]

NoLog == [event |-> "none", posts |-> 0, outcome |-> "none", delays |-> <<>>,
          fallbacks |-> {}, done |-> {},
          removed |-> {}, args |-> <<>>, message |-> "none"]

\* what one POST of generate_daily_motivation may come to: requests.post
\* raises, raise_for_status raises, the response holds no text, or it holds one
Outcomes == {"exception", "http_error", "no_text", "text"}
Raising == {"exception", "http_error"}

\* lines 58-60: a run of the script starts and reads the clock into today
StartRun ==
    /\ run.pc = "idle"
    /\ run' = [run EXCEPT !.pc = "top", !.today = Strftime(today),
                          !.generated = FALSE]
    /\ log' = [log EXCEPT !.event = "run"]
    /\ UNCHANGED <<session, today, trackerVars>>

\* mutant of MotivationDue: the date of the last motivation is not looked at
MotivationDueAnyDate(current_date, sess) == ~sess.is_generating

\* line 311: whether the run calls generate_daily_motivation
MotivationDue(current_date, sess) ==
    current_date # sess.lastMotivationDate /\ ~sess.is_generating

\* lines 307-313 and 70-87: the run reads the date and, when the motivation is
\* due, enters generate_daily_motivation; otherwise it renders and ends
CheckMotivation ==
    /\ run.pc = "top"
    /\ LET current_date == Strftime(today) IN
       IF MotivationDue(current_date, session)
       THEN /\ session' = [session EXCEPT !.is_generating = TRUE]
            /\ run' = [run EXCEPT !.pc = "post", !.current_date = current_date,
                                  !.generated = TRUE, !.i = 0,
                                  !.result_text = DefaultText]
            /\ log' = [log EXCEPT !.event = "generate", !.posts = 0,
                                  !.outcome = "none", !.delays = <<>>]
       ELSE /\ run' = [run EXCEPT !.pc = "idle", !.current_date = current_date]
            /\ log' = [log EXCEPT !.event = "render"]
            /\ UNCHANGED session
    /\ UNCHANGED <<today, trackerVars>>

\* lines 101-105: the seconds slept after attempt i came to outcome (0: none)
SleepAfter(i, outcome) ==
    IF outcome \in Raising /\ i < MAX_ATTEMPTS - 1 THEN 2 ^ i ELSE 0

\* mutant of AfterAttempt: the last attempt's exception is not caught
AfterAttemptPropagates(r, outcome) ==
    IF outcome = "text"
    THEN [r EXCEPT !.result_text = GeneratedText, !.pc = "finish"]
    ELSE IF outcome \in Raising /\ ~(r.i < MAX_ATTEMPTS - 1)
    THEN [r EXCEPT !.pc = "raised"]
    ELSE IF r.i + 1 < MAX_ATTEMPTS
    THEN [r EXCEPT !.i = r.i + 1]
    ELSE [r EXCEPT !.pc = "finish"]

\* lines 89-107: the loop's names after attempt r.i came to outcome
AfterAttempt(r, outcome) ==
    IF outcome = "text"
    THEN [r EXCEPT !.result_text = GeneratedText, !.pc = "finish"]
    ELSE IF outcome \in Raising /\ ~(r.i < MAX_ATTEMPTS - 1)
    THEN [r EXCEPT !.result_text = FailedText, !.pc = "finish"]
    ELSE IF r.i + 1 < MAX_ATTEMPTS
    THEN [r EXCEPT !.i = r.i + 1]
    ELSE [r EXCEPT !.pc = "finish"]

\* lines 89-107: one pass of the loop: the POST, its outcome, the sleep
Attempt(outcome) ==
    /\ run.pc = "post"
    /\ run' = AfterAttempt(run, outcome)
    /\ log' = [log EXCEPT
                  !.event = "attempt",
                  !.posts = @ + 1,
                  !.outcome = outcome,
                  !.delays = IF run'.pc = "post"
                             THEN Append(@, SleepAfter(run.i, outcome))
                             ELSE @]
    /\ UNCHANGED <<session, today, trackerVars>>

\* lines 110-114: the result is stored and the script is run again
FinishGeneration(sess, r) ==
    [sess EXCEPT !.dailyMotivation = r.result_text,
                 !.lastMotivationDate = r.current_date,
                 !.is_generating = FALSE]

Finish ==
    /\ run.pc = "finish"
    /\ session' = FinishGeneration(session, run)
    /\ run' = [run EXCEPT !.pc = "idle"]
    /\ log' = [log EXCEPT
                  !.event = "finish",
                  !.done = @ \cup {run.current_date},
                  !.fallbacks = IF log.outcome = "text" THEN @
                                ELSE @ \cup {run.result_text}]
    /\ UNCHANGED <<today, trackerVars>>

\* midnight passes while the dashboard is open
WebTick ==
    /\ today < FirstToday + MaxTicks
    /\ today' = today + 1
    /\ log' = [log EXCEPT !.event = "tick"]
    /\ UNCHANGED <<session, run, trackerVars>>

----------------------------------------------------------------------------
(* The web dashboard: the tracker length *)

MinTotalDays == 1
MaxTotalDays == 365

RangeError == "Total days must be between 1 and 365."
NumberError == "Please enter a valid number for total days."

\* the texts int() reads as a decimal numeral, with the int each gives
DecimalTexts == [t \in {"0", "30", "400"} |->
                    IF t = "0" THEN 0 ELSE IF t = "30" THEN 30 ELSE 400]

\* int(value): the int itself, the int a numeral denotes, or ValueError
PyInt(v) ==
    IF v.kind = "int" THEN [ok |-> TRUE, n |-> v.n]
    ELSE IF v.text \in DOMAIN DecimalTexts
    THEN [ok |-> TRUE, n |-> DecimalTexts[v.text]]
    ELSE [ok |-> FALSE, n |-> 0]

\* the values the widget is set to
TotalDaysInputs ==
    {IntValue(0), IntValue(1), IntValue(30), IntValue(365), IntValue(366),
     TextValue("30"), TextValue("400"), TextValue("3.7"), TextValue("abc"),
     TextValue("")}

\* the widget with key new_total_days takes the value v
SetNewTotalDays(v) ==
    /\ run.pc = "idle"
    /\ session' = [session EXCEPT !.new_total_days = v]
    /\ log' = [log EXCEPT !.event = "set_total_days", !.message = "none"]
    /\ UNCHANGED <<run, today, trackerVars>>

\* mutant of ValidTotalDays: no upper limit
ValidTotalDaysNoUpper(new_days) == MinTotalDays <= new_days

\* line 277
ValidTotalDays(new_days) == MinTotalDays <= new_days /\ new_days <= MaxTotalDays

\* handle_update_config
HandleUpdateConfig ==
    /\ run.pc = "idle"
    /\ LET new_days == PyInt(session.new_total_days) IN
       IF ~new_days.ok
       THEN /\ log' = [log EXCEPT !.event = "update_config",
                                  !.message = NumberError]
            /\ UNCHANGED session
       ELSE IF ValidTotalDays(new_days.n)
       THEN /\ session' = [session EXCEPT !.totalDays = new_days.n,
                                          !.startDate = Strftime(today)]
            /\ log' = [log EXCEPT !.event = "update_config",
                                  !.message = "none"]
       ELSE /\ log' = [log EXCEPT !.event = "update_config",
                                  !.message = RangeError]
            /\ UNCHANGED session
    /\ UNCHANGED <<run, today, trackerVars>>

----------------------------------------------------------------------------
(* The web dashboard: the daily checklist *)

\* the dates a status update names: the first day, the day after it and
\* the day after that
GridDates == {Strftime(FirstToday + k) : k \in 0..2}

\* a run of the script as the checklist sees it: line 60 binds today, the
\* name the handlers of the rendered widgets read
RunScript ==
    /\ run.pc = "idle"
    /\ run' = [run EXCEPT !.today = Strftime(today)]
    /\ log' = [log EXCEPT !.event = "run", !.args = <<>>]
    /\ UNCHANGED <<session, today, trackerVars>>

\* an empty dict
EmptyDict == <<>>

\* d[key] = value
DictSet(d, key, value) ==
    [k \in DOMAIN d \cup {key} |-> IF k = key THEN value ELSE d[k]]

\* del d[key], and the comprehension {k: v for k, v in d.items() if k != key}
DictWithout(d, key) == [k \in DOMAIN d \ {key} |-> d[k]]

\* mutant of StatusAfterUpdate: the unchecked entry is stored as False
StatusAfterUpdateKeepsFalse(dailyStatus, date, task_id, is_complete) ==
    LET created == IF date \in DOMAIN dailyStatus THEN dailyStatus
                   ELSE DictSet(dailyStatus, date, EmptyDict)
    IN  DictSet(created, date, DictSet(created[date], task_id, is_complete))

\* lines 260-267: dailyStatus after the update of one entry
StatusAfterUpdate(dailyStatus, date, task_id, is_complete) ==
    LET created == IF date \in DOMAIN dailyStatus THEN dailyStatus
                   ELSE DictSet(dailyStatus, date, EmptyDict)
        stored == DictSet(created, date,
                          DictSet(created[date], task_id, is_complete))
    IN  IF ~is_complete /\ task_id \in DOMAIN stored[date]
        THEN DictSet(stored, date, DictWithout(stored[date], task_id))
        ELSE stored

\* handle_update_task_status(date, task_id, is_complete), called by the
\* checkbox of a task the tracker holds
HandleUpdateTaskStatus(date, task_id, is_complete) ==
    /\ run.pc = "idle"
    /\ run.today # None
    /\ InList(task_id, session.tasks)
    /\ IF StrLess(run.today, date)
       THEN UNCHANGED session
       ELSE session' = [session EXCEPT !.dailyStatus =
                           StatusAfterUpdate(@, date, task_id, is_complete)]
    /\ log' = [log EXCEPT !.event = "update_status",
                          !.args = <<date, task_id, is_complete>>]
    /\ UNCHANGED <<run, today, trackerVars>>

\* lines 246-251: dailyStatus without the entries of task_id
StatusWithoutTask(dailyStatus, task_id) ==
    [date \in DOMAIN dailyStatus |-> DictWithout(dailyStatus[date], task_id)]

\* lines 242-244: the tasks whose id is not task_id
TasksWithout(tasks, task_id) == SelectSeq(tasks, LAMBDA t : t # task_id)

\* handle_remove_task(task_id), called by the button of a task the tracker
\* holds
HandleRemoveTask(task_id) ==
    /\ run.pc = "idle"
    /\ run.today # None
    /\ InList(task_id, session.tasks)
    /\ session' = [session EXCEPT
                      !.tasks = TasksWithout(@, task_id),
                      !.dailyStatus = StatusWithoutTask(@, task_id)]
    /\ log' = [log EXCEPT !.event = "remove_task", !.args = <<task_id>>,
                          !.removed = @ \cup {task_id}]
    /\ UNCHANGED <<run, today, trackerVars>>

----------------------------------------------------------------------------
(* The specifications *)

\* the first run of the tracker, on file f
InitOn(f) ==
    /\ file = f
    /\ habits = LoadHabits(file)
    /\ loaded = LoadShape(file)
    /\ today = FirstToday
    /\ ret = NoCall
    /\ deleted = NoName
    /\ session = InitialSession(today)
    /\ run = IdleRun
    /\ log = NoLog

Init == InitOn(NoFile)

Next ==
    \/ \E a \in AddArgs :
           loaded = "record" /\ AddHabit(a[1], a[2])
               /\ UNCHANGED <<loaded, webVars>>
    \/ \E c \in CompleteArgs :
           loaded = "record" /\ CompleteHabit(c[1], c[2])
               /\ UNCHANGED <<loaded, webVars>>
    \/ \E name \in Names :
           loaded = "record" /\ DeleteHabit(name)
               /\ UNCHANGED <<loaded, webVars>>
    \/ NewTracker /\ UNCHANGED webVars
    \/ Tick /\ UNCHANGED <<loaded, webVars>>

\* the command-line tracker, started without a file
Spec == Init /\ [][Next]_vars

\* the command-line tracker, started on any kind of file
InitFiles == \E f \in {NoFile, UnparsableFile, OtherJsonFile} : InitOn(f)

NextFiles ==
    \/ Next
    \/ \E op \in {"add_habit", "complete_habit", "delete_habit", "list_habits"},
          name \in Names :
           Raises(op, name) /\ UNCHANGED webVars

SpecFiles == InitFiles /\ [][NextFiles]_vars

\* the daily motivation of the web dashboard
NextMotivation ==
    \/ StartRun
    \/ CheckMotivation
    \/ \E outcome \in Outcomes : Attempt(outcome)
    \/ Finish
    \/ WebTick

SpecMotivation == Init /\ [][NextMotivation]_vars

\* the tracker length of the web dashboard
NextConfig ==
    \/ \E v \in TotalDaysInputs : SetNewTotalDays(v)
    \/ HandleUpdateConfig
    \/ WebTick

SpecConfig == Init /\ [][NextConfig]_vars

\* the daily checklist of the web dashboard
NextGrid ==
    \/ RunScript
    \/ \E date \in GridDates, task_id \in {"task-1", "task-2"},
          is_complete \in BOOLEAN :
           HandleUpdateTaskStatus(date, task_id, is_complete)
    \/ \E task_id \in {"task-1", "task-2"} : HandleRemoveTask(task_id)
    \/ WebTick

SpecGrid == Init /\ [][NextGrid]_vars

----------------------------------------------------------------------------
(* What the claims speak of *)

\* the calendar days a completions list names
DateSet(completions) == {Strptime(completions[i]) : i \in 1..Len(completions)}

\* the length of the longest run of consecutive calendar days in S
MaxRun(S) ==
    CHOOSE k \in 0..Cardinality(S) :
        /\ k > 0 => \E a \in S : \A j \in 0..(k - 1) : a + j \in S
        /\ ~ \E a \in S : \A j \in 0..k : a + j \in S

\* the number of days counted walking back from day t while the day is in S
DaysEndingOn(S, t) ==
    CHOOSE k \in 0..Cardinality(S) :
        /\ \A j \in 0..(k - 1) : t - j \in S
        /\ (t - k) \notin S

SucceededOn(op) == ret.op = op /\ ret.result
FailedOn(op) == ret.op = op /\ ~ret.result

\* C1: every stored habit has non-negative integer streaks with
\* current_streak <= longest_streak
C1_StreakOrder ==
    \A n \in DOMAIN habits :
        /\ habits[n].current_streak \in Nat
        /\ habits[n].longest_streak \in Nat
        /\ habits[n].current_streak <= habits[n].longest_streak

\* a habit completed today whose longest run is longer than the current one
C1_Witness ==
    \E n \in DOMAIN habits :
        /\ habits[n].current_streak >= 1
        /\ habits[n].longest_streak > habits[n].current_streak

\* C2: every stored longest_streak is the length of the longest run of
\* consecutive calendar dates in the habit's completions (0 when empty)
C2_LongestIsMaxRun ==
    \A n \in DOMAIN habits :
        habits[n].longest_streak = MaxRun(DateSet(habits[n].completions))

\* a run of two days, a gap, and a run of one day ending today
C2_Witness ==
    \E n \in DOMAIN habits :
        LET S == DateSet(habits[n].completions) IN
        /\ S = {today - 3, today - 2, today}
        /\ habits[n].longest_streak = 2

\* C3: right after a successful complete_habit the stored current_streak is
\* the number of days counted walking back from today through completions
C3_CurrentAfterComplete ==
    SucceededOn("complete_habit") =>
        habits[ret.name].current_streak =
            DaysEndingOn(DateSet(habits[ret.name].completions), today)

\* a successful completion on a list that holds a date later than today
C3_Witness ==
    /\ SucceededOn("complete_habit")
    /\ \E d \in DateSet(habits[ret.name].completions) : d > today
    /\ habits[ret.name].current_streak = 2

\* C4: the current_streak list_habits and get_habit_details report is the
\* number of consecutive days ending today on which the habit was completed
C4_ReportedStreakIsCurrent ==
    /\ \A e \in ListHabits :
           e.current_streak =
               DaysEndingOn(DateSet(habits[e.name].completions), today)
    /\ \A n \in DOMAIN habits :
           GetHabitDetails(n).current_streak =
               DaysEndingOn(DateSet(habits[n].completions), today)

\* C5: add_habit with a name already in the store returns False and leaves
\* the habit records, their number and the file unchanged
C5_DuplicateAddChangesNothing ==
    [][(ret'.op = "add_habit" /\ ret'.name \in DOMAIN habits) =>
          /\ ret'.result = FALSE
          /\ habits' = habits
          /\ Cardinality(DOMAIN habits') = Cardinality(DOMAIN habits)
          /\ file' = file]_vars

\* add_habit has failed on a habit that has completions
C5_Witness ==
    /\ FailedOn("add_habit")
    /\ ret.name \in DOMAIN habits
    /\ habits[ret.name].completions # <<>>

\* C6: complete_habit(name, d) returns True exactly when the habit exists and
\* d is not yet in its completions; when it returns False nothing changes
C6_CompleteResult ==
    [][ret'.op = "complete_habit" =>
          /\ ret'.result =
                 (/\ ret'.name \in DOMAIN habits
                  /\ Strptime(ret'.date)
                         \notin DateSet(habits[ret'.name].completions))
          /\ ~ret'.result => (habits' = habits /\ file' = file)]_vars

\* complete_habit has failed on a date the habit already holds
C6_Witness ==
    /\ FailedOn("complete_habit")
    /\ ret.name \in DOMAIN habits
    /\ InList(ret.date, habits[ret.name].completions)
    /\ Len(habits[ret.name].completions) >= 2

\* C7: every completions list is in ascending date order without duplicates
C7_CompletionsAscending ==
    \A n \in DOMAIN habits :
        \A i, j \in 1..Len(habits[n].completions) :
            i < j => Strptime(habits[n].completions[i])
                         < Strptime(habits[n].completions[j])

\* a list of three dates or more that spans the turn of the year
C7_Witness ==
    \E n \in DOMAIN habits :
        LET c == habits[n].completions IN
        /\ Len(c) >= 3
        /\ c[1][1] < c[Len(c)][1]

\* C8: after a successful delete_habit the name is in no listing and not in
\* the file, and a successful add_habit always yields an empty record
C8_DeleteForgets ==
    /\ SucceededOn("delete_habit") =>
           /\ \A e \in ListHabits : e.name # ret.name
           /\ GetHabitDetails(ret.name) = NoDetails
           /\ ret.name \notin DOMAIN LoadHabits(file)
    /\ SucceededOn("add_habit") =>
           /\ habits[ret.name].completions = <<>>
           /\ habits[ret.name].current_streak = 0
           /\ habits[ret.name].longest_streak = 0

\* a habit deleted with completions has been added again
C8_Witness == SucceededOn("add_habit") /\ deleted = ret.name

\* C9: delete_habit returns True exactly when the name was in the store;
\* when it returns False no habit record and no persisted data changes
C9_DeleteResult ==
    [][ret'.op = "delete_habit" =>
          /\ ret'.result = (ret'.name \in DOMAIN habits)
          /\ ~ret'.result => (habits' = habits /\ file' = file)]_vars

\* delete_habit has failed while another habit is stored
C9_Witness == FailedOn("delete_habit") /\ DOMAIN habits # {}

\* C10: a tracker constructed on the file holds the habit records the
\* running tracker holds
C10_RoundTrip == LoadHabits(file) = habits

\* a call has failed on a store whose file holds a habit with completions
C10_Witness ==
    /\ ret.op # "none" /\ ~ret.result
    /\ \E n \in DOMAIN habits : Len(habits[n].completions) >= 2

\* C11: whatever the backing file holds, the tracker starts as on an empty
\* store: no operation on it raises
C11_NeverFailsHard == ret.op # "raised"

\* C12: no step changes the created_date or the description of a habit that
\* stays in the mapping, and a complete_habit call leaves the set of habits
\* and every habit other than the named one as they were
C12_Frame ==
    [][/\ \A n \in DOMAIN habits \cap DOMAIN habits' :
              /\ habits'[n].created_date = habits[n].created_date
              /\ habits'[n].description = habits[n].description
       /\ ret'.op = "complete_habit" =>
              /\ DOMAIN habits' = DOMAIN habits
              /\ \A n \in DOMAIN habits \ {ret'.name} :
                     habits'[n] = habits[n]]_vars

\* a habit created on an earlier day has been completed while another
\* habit with a description of its own is stored
C12_Witness ==
    /\ SucceededOn("complete_habit")
    /\ habits[ret.name].created_date # Strftime(today)
    /\ \E n \in DOMAIN habits \ {ret.name} :
           habits[n].description # habits[ret.name].description

\* C13: a run of generate_daily_motivation makes at most MAX_ATTEMPTS
\* requests, makes none after an attempt that gave a text, never leaves by
\* an exception, and ends holding the text or a fallback string
C13_BoundedAttempts ==
    /\ run.pc \in {"idle", "top", "post", "finish"}
    /\ log.posts <= MAX_ATTEMPTS
    /\ run.pc = "post" =>
           /\ run.i < MAX_ATTEMPTS
           /\ log.posts = run.i
           /\ log.outcome # "text"
    /\ run.pc = "finish" =>
           /\ log.posts >= 1
           /\ run.result_text \in {GeneratedText, DefaultText, FailedText}
           /\ log.outcome = "text" <=> run.result_text = GeneratedText

\* the third attempt gave a text after two attempts that did not
C13_Witness ==
    /\ run.pc = "finish"
    /\ log.posts = MAX_ATTEMPTS
    /\ run.result_text = GeneratedText

\* C14: all generations in which every attempt failed have returned one and
\* the same fallback string
C14_OneFallback == Cardinality(log.fallbacks) <= 1

\* C15: the pause before attempt k (0-based, k >= 1) is 2^(k-1) seconds
\* whatever way attempt k-1 failed, and no pause follows the last attempt
C15_Backoff ==
    /\ \A k \in 1..Len(log.delays) : log.delays[k] = 2 ^ (k - 1)
    /\ run.pc = "post" => Len(log.delays) = log.posts
    /\ run.pc = "finish" => Len(log.delays) = log.posts - 1

\* C16: a generation starts only on a date other than lastMotivationDate
\* and while none is in progress; when the generation for day D ends,
\* lastMotivationDate is D and is_generating is false; and no request is
\* made on a day whose generation has ended
C16_OncePerDay ==
    [][/\ (run.pc = "top" /\ run'.pc = "post") =>
              /\ Strftime(today) # session.lastMotivationDate
              /\ ~session.is_generating
       /\ (run.pc = "finish" /\ run'.pc # "finish") =>
              /\ session'.lastMotivationDate = run.current_date
              /\ ~session'.is_generating
       /\ log'.event = "attempt" => Strftime(today) \notin log.done]_vars

\* a later run of the script on a day whose generation has ended made no
\* request
C16_Witness ==
    /\ run.pc = "idle"
    /\ ~run.generated
    /\ run.current_date = Strftime(today)
    /\ run.current_date \in log.done
    /\ Cardinality(log.done) >= 2

\* the entered value is an integer, and the integer it is
IsInteger(v) == v.kind = "int" \/ v.text \in DOMAIN DecimalTexts
IntegerOf(v) == IF v.kind = "int" THEN v.n ELSE DecimalTexts[v.text]
InRange(v) ==
    IsInteger(v) /\ IntegerOf(v) \in MinTotalDays..MaxTotalDays

\* C17: totalDays is always in 1..365; handle_update_config sets totalDays
\* to an entered integer in 1..365 and startDate to today's date, and for
\* any other value shows an error and changes nothing; no other step
\* changes the config
C17_ConfigValidated ==
    /\ [](session.totalDays \in MinTotalDays..MaxTotalDays)
    /\ [][LET v == session.new_total_days IN
           /\ log'.event = "update_config" =>
                  IF InRange(v)
                  THEN /\ session'.totalDays = IntegerOf(v)
                       /\ session'.startDate = Strftime(today)
                  ELSE /\ session' = session
                       /\ log'.message \in {RangeError, NumberError}
           /\ (\/ session'.totalDays # session.totalDays
               \/ session'.startDate # session.startDate) =>
                  log'.event = "update_config" /\ InRange(v)]_vars

\* a value that is no integer in 1..365 has been refused after the length
\* and the start date had been changed
C17_Witness ==
    /\ log.event = "update_config"
    /\ log.message # "none"
    /\ ~InRange(session.new_total_days)
    /\ session.totalDays # InitialSession(FirstToday).totalDays
    /\ session.startDate # InitialSession(FirstToday).startDate

\* task_id is recorded for date
Recorded(dailyStatus, date, task_id) ==
    date \in DOMAIN dailyStatus /\ task_id \in DOMAIN dailyStatus[date]

\* C18: dailyStatus holds no False value and no entry of a removed task;
\* a status update for a date after today changes nothing, and one for a
\* date up to today leaves the task recorded for the date exactly when
\* is_complete
C18_StatusEntries ==
    /\ [](\A d \in DOMAIN session.dailyStatus :
              \A t \in DOMAIN session.dailyStatus[d] :
                  session.dailyStatus[d][t] = TRUE /\ t \notin log.removed)
    /\ [][log'.event = "update_status" =>
              LET date == log'.args[1]
                  task_id == log'.args[2]
                  is_complete == log'.args[3]
              IN  IF StrLess(run.today, date)
                  THEN session' = session
                  ELSE Recorded(session'.dailyStatus, date, task_id)
                           <=> is_complete]_vars

\* an entry has been unchecked after a task with recorded days was removed,
\* while another entry stays recorded
C18_Witness ==
    /\ log.event = "update_status"
    /\ ~log.args[3]
    /\ ~StrLess(run.today, log.args[1])
    /\ log.args[1] \in DOMAIN session.dailyStatus
    /\ log.removed # {}
    /\ \E d \in DOMAIN session.dailyStatus :
           Recorded(session.dailyStatus, d, log.args[2])

====
